---------------------------- MODULE Spec2Model ----------------------------
(***************************************************************************)
(* gutimer (src/gutimer.go): a terminal timer / countdown / stopwatch.     *)
(*                                                                         *)
(* Three parties are modelled:                                             *)
(*   - the timing loop runTimer and the tail of main (restore, exit);      *)
(*   - the goroutine readStdin, which talks to the loop over the two       *)
(*     unbuffered channels c (bytes) and e (termination statuses);         *)
(*   - the runtime: the wall clock and the time.Ticker, whose channel tk.C  *)
(*     holds at most one tick, stamped with the time it fired.             *)
(*                                                                         *)
(* A send on an unbuffered channel completes in the same step as the       *)
(* matching receive.  A select with several ready cases takes any of them. *)
(* The clock counts units of 5 ms, so that a tick may be less than one     *)
(* period old when the loop gets to it.  All clock readings at or after    *)
(* MaxTime are collapsed into MaxTime: there the clock reading stays and   *)
(* the ticker keeps firing.                                                *)
(***************************************************************************)
EXTENDS Integers, Sequences, FiniteSets, TLC

\* ------------------------------------------------------------- bounds
\* Largest number of whole hours in a duration formatted on its own.
MaxHours == 1
\* Horizon of the wall clock, in clock units.
MaxTime == 5
\* Largest target duration given on the command line, in clock units.
MaxTarget == 4
\* Width of a time.Duration in the model (the program's is 64 bits).
DurBits == 4

\* ---------------------------------------------------------- constants
\* type Mode
NONE == 0
TIMER == 1
COUNTDOWN == 2
STOPWATCH == 3

\* time.Millisecond * 10, in clock units of 5 ms
TickPeriod == 2

\* the bytes runTimer and readStdin compare against
UpperQ == 81
LowerQ == 113
SPACE == 32
EOT == 4

\* 1<<63 - 1 for a DurBits-wide duration
MaxDuration == 2^(DurBits - 1) - 1
MinDuration == 0 - 2^(DurBits - 1)

\* duration = 1<<63 - 1 in Stopwatch mode
StopwatchTargetNarrow == MaxDuration - 1
StopwatchTarget == MaxDuration

\* the time package's units, counted in 100 microseconds
Millisecond == 10
Second == 10000
Minute == 600000
Hour == 36000000

\* bytes the terminal may deliver: the ones the program tests, and one other
Bytes == {EOT, SPACE, UpperQ, LowerQ, 120}

Modes == {TIMER, COUNTDOWN, STOPWATCH}

VARIABLES
    mode,        \* runTimer's mode
    duration,    \* runTimer's duration (the target)
    start,       \* runTimer's start
    pause,       \* runTimer's pause
    d,           \* runTimer's d
    char,        \* <<>> or <<the last byte received from c>>
    pc,          \* where main/runTimer is: select, resume, returned, restored, exited
    ret,         \* <<>> or <<the status runTimer returned>>
    cause,       \* which statement ended the loop: none, overrun, quit, eot, error
    resumedAt,   \* <<>> or <<clock reading of the last resume not yet followed by a frame>>
    now,         \* the wall clock
    nextTick,    \* when the ticker is next due
    tkC,         \* the ticker's channel: <<>> or <<timestamp>>
    rpc,         \* where readStdin is: read, send_err, send_eot, send_c
    rb,          \* readStdin's b[0]
    inflight,    \* the bytes read from stdin that the loop has not received yet
    frame,       \* <<>> or the last frame written: <<label, duration formatted>>
    prevFrame,   \* the frame written before that one, or <<>>
    bells,       \* number of "\a" written
    newlines,    \* number of "\n" written by runTimer
    term,        \* terminal mode: cbreak or orig
    exitStatus,  \* <<>> or <<status given to os.Exit>>
    fin,         \* the duration handed to printDuration on its own
    fout         \* "" or the string printDuration returned for fin

loopVars == <<mode, duration, start, pause, d, char, pc, ret, cause, resumedAt>>
clockVars == <<now, nextTick, tkC>>
readerVars == <<rpc, rb, inflight>>
outVars == <<frame, prevFrame, bells, newlines>>
mainVars == <<term, exitStatus>>
fmtVars == <<fin, fout>>
vars == <<loopVars, clockVars, readerVars, outVars, mainVars, fmtVars>>

\* -------------------------------------------------------------- helpers
Clamp(x) == IF x > MaxDuration THEN MaxDuration
            ELSE IF x < MinDuration THEN MinDuration ELSE x

\* t.Sub(u): the difference, saturated to the range of a Duration
SubSwapped(t, u) == Clamp(u - t)
Sub(t, u) == Clamp(t - u)

\* Go's integer division, which truncates toward zero
Quot(a, b) == IF a >= 0 THEN a \div b ELSE 0 - ((0 - a) \div b)

\* d.Round(m) for a non-negative d: to the nearest multiple of m
TruncateRound(dd, m) == ((dd + m \div 2) \div m) * m
\* d.Truncate(m): d rounded toward zero to a multiple of m
Truncate(dd, m) ==
    IF m <= 0 THEN dd
    ELSE IF dd >= 0 THEN dd - (dd % m)
    ELSE dd + ((0 - dd) % m)

\* the verb %2.2d: at least two digits, zero padded
Fmt22(n) ==
    IF n < 0 THEN "-" \o (IF 0 - n < 10 THEN "0" \o ToString(0 - n) ELSE ToString(0 - n))
    ELSE IF n < 10 THEN "0" \o ToString(n)
    ELSE ToString(n)

\* printDuration
printDuration(duration0) ==
    LET hours0 == Truncate(duration0, Hour)
        duration1 == duration0 - hours0
        hours == Quot(hours0, Hour)
        minutes0 == Truncate(duration1, Minute)
        duration2 == duration1 - minutes0
        minutes == Quot(minutes0, Minute)
        seconds0 == Truncate(duration2, Second)
        duration3 == duration2 - seconds0
        seconds == Quot(seconds0, Second)
        milliseconds == Quot(Truncate(duration3, Millisecond), Millisecond * 10)
    IN  "[" \o Fmt22(hours) \o ":" \o Fmt22(minutes) \o ":" \o Fmt22(seconds)
            \o "." \o Fmt22(milliseconds) \o "]"

\* d > duration
OverrunSwapped(dd, dur) == dur > dd
OverrunGeq(dd, dur) == dd >= dur
Overrun(dd, dur) == dd > dur

\* the duration shown in the final frame: printElapsed(mode, duration, duration)
FinalDuration(dur, dd) == dur

\* fmt.Print("\a") at overrun
FinalBellsNone(b) == b
FinalBells(b) == b + 1

\* printElapsed: the label and the duration handed to printDuration
Render(m, total, dur) ==
    IF m = COUNTDOWN THEN <<"Time Remaining: ", total - dur>>
    ELSE IF m \in {STOPWATCH, TIMER} THEN <<"Elapsed time: ", dur>>
    ELSE <<>>

\* char == 'Q' || char == 'q'
IsQuitLowerOnly(ch) == ch = LowerQ
IsQuit(ch) == ch = UpperQ \/ ch = LowerQ

\* mode == STOPWATCH && char == ' '
IsToggleAnyMode(m, ch) == ch = SPACE
IsToggle(m, ch) == m = STOPWATCH /\ ch = SPACE

\* time.Now().Add(-d)
ResumeStart(nw, dd) == nw - dd

\* the status readStdin sends on e: 1 after a read error, 0 for C-d
EventStatusAlwaysOne(p) == 1
EventStatus(p) == IF p = "send_err" THEN 1 ELSE 0

\* where readStdin goes after a successful read of byte x
AfterReadForwardAll(x) == "send_c"
AfterRead(x) == IF x = EOT THEN "send_eot" ELSE "send_c"

\* the terminal mode after t.Restore()
AfterRestoreSkipped == "cbreak"
AfterRestore == "orig"

\* the ticker's next due time after firing at nw
NextDue(due, nw) == due + TickPeriod * (1 + (nw - due) \div TickPeriod)

Running == pc \in {"select", "resume"}

\* ----------------------------------------------------------------- Init
\* What is the same at every entry of the loop.
Fresh ==
    /\ mode \in Modes
    /\ duration \in (IF mode = STOPWATCH THEN {StopwatchTarget} ELSE 0..MaxTarget)
    /\ pause = FALSE
    /\ char = <<>>
    /\ pc = "select"
    /\ ret = <<>>
    /\ cause = "none"
    /\ resumedAt = <<>>
    /\ now = 0
    /\ nextTick = TickPeriod
    /\ tkC = <<>>
    /\ rpc = "read"
    /\ rb = 0
    /\ inflight = <<>>
    /\ prevFrame = <<>>
    /\ bells = 0
    /\ newlines = 0
    /\ term = "cbreak"
    /\ exitStatus = <<>>

\* runTimer is entered: start = time.Now(), d = time.Since(start), no frame yet
Init ==
    /\ Fresh
    /\ start = 0
    /\ d = 0
    /\ frame = <<>>
    /\ fin = 0
    /\ fout = ""

\* ------------------------------------------------------------- runtime
\* Wall-clock time passes.
Advance ==
    /\ Running
    /\ now' = IF now < MaxTime THEN now + 1 ELSE now
    /\ nextTick' = IF now = MaxTime /\ nextTick > now THEN now ELSE nextTick
    /\ UNCHANGED <<tkC, loopVars, readerVars, outVars, mainVars>>
    /\ UNCHANGED fmtVars

\* The ticker fires: it sends the current time unless a tick is still pending.
TickFire ==
    /\ Running
    /\ nextTick <= now
    /\ tkC' = IF tkC = <<>> THEN <<now>> ELSE tkC
    /\ nextTick' = NextDue(nextTick, now)
    /\ UNCHANGED <<now, loopVars, readerVars, outVars, mainVars>>
    /\ UNCHANGED fmtVars

\* ------------------------------------------------------------ runTimer
\* case t := <-tk.C, while paused: continue
TickPausedRenders ==
    /\ pc = "select"
    /\ tkC # <<>>
    /\ pause
    /\ tkC' = <<>>
    /\ d' = Sub(tkC[1], start)
    /\ frame' = Render(mode, duration, d')
    /\ prevFrame' = frame
    /\ UNCHANGED <<mode, duration, start, pause, char, pc, ret, cause, resumedAt>>
    /\ UNCHANGED <<now, nextTick, readerVars, bells, newlines, mainVars>>
    /\ UNCHANGED fmtVars
TickPaused ==
    /\ pc = "select"
    /\ tkC # <<>>
    /\ pause
    /\ tkC' = <<>>
    /\ UNCHANGED <<now, nextTick, loopVars, readerVars, outVars, mainVars>>
    /\ UNCHANGED fmtVars

\* case t := <-tk.C, d > duration: bell, final frame, break LOOP, newline, return 0
TickOverrun ==
    /\ pc = "select"
    /\ tkC # <<>>
    /\ ~pause
    /\ Overrun(Sub(tkC[1], start), duration)
    /\ tkC' = <<>>
    /\ d' = Sub(tkC[1], start)
    /\ bells' = FinalBells(bells)
    /\ frame' = Render(mode, duration, FinalDuration(duration, d'))
    /\ prevFrame' = frame
    /\ newlines' = newlines + 1
    /\ ret' = <<0>>
    /\ cause' = "overrun"
    /\ pc' = "returned"
    /\ UNCHANGED <<mode, duration, start, pause, char, resumedAt>>
    /\ UNCHANGED <<now, nextTick, readerVars, mainVars>>
    /\ UNCHANGED fmtVars

\* case t := <-tk.C, otherwise: print the elapsed time
TickRender ==
    /\ pc = "select"
    /\ tkC # <<>>
    /\ ~pause
    /\ ~Overrun(Sub(tkC[1], start), duration)
    /\ tkC' = <<>>
    /\ d' = Sub(tkC[1], start)
    /\ frame' = Render(mode, duration, d')
    /\ prevFrame' = frame
    /\ resumedAt' = <<>>
    /\ UNCHANGED <<mode, duration, start, pause, char, pc, ret, cause>>
    /\ UNCHANGED <<now, nextTick, readerVars, bells, newlines, mainVars>>
    /\ UNCHANGED fmtVars

\* case char := <-c
RecvChar ==
    /\ pc = "select"
    /\ rpc = "send_c"
    /\ rpc' = "read"
    /\ char' = <<rb>>
    /\ inflight' = (IF inflight # <<>> THEN Tail(inflight) ELSE inflight)
    /\ IF IsQuit(rb)
       THEN /\ newlines' = newlines + 1
            /\ ret' = <<0>>
            /\ cause' = "quit"
            /\ pc' = "returned"
            /\ UNCHANGED pause
       ELSE IF IsToggle(mode, rb)
       THEN /\ pause' = (IF ~pause THEN TRUE ELSE pause)
            /\ pc' = (IF ~pause THEN "select" ELSE "resume")
            /\ UNCHANGED <<newlines, ret, cause>>
       ELSE UNCHANGED <<newlines, ret, cause, pc, pause>>
    /\ UNCHANGED <<mode, duration, start, d, resumedAt>>
    /\ UNCHANGED <<clockVars, rb, frame, prevFrame, bells, mainVars>>
    /\ UNCHANGED fmtVars

\* start = time.Now().Add(-d); pause = false
Resume ==
    /\ pc = "resume"
    /\ start' = ResumeStart(now, d)
    /\ pause' = FALSE
    /\ resumedAt' = <<now>>
    /\ pc' = "select"
    /\ UNCHANGED <<mode, duration, d, char, ret, cause>>
    /\ UNCHANGED <<clockVars, readerVars, outVars, mainVars>>
    /\ UNCHANGED fmtVars

\* case ret := <-e: return ret.  The reader goes on after its send.
RecvTermContinue ==
    /\ pc = "select"
    /\ rpc \in {"send_err", "send_eot"}
    /\ ret' = <<EventStatus(rpc)>>
    /\ cause' = (IF rpc = "send_err" THEN "error" ELSE "eot")
    /\ rpc' = (IF rpc = "send_err" /\ rb = EOT THEN "send_eot" ELSE "send_c")
    /\ UNCHANGED <<mode, duration, start, pause, d, char, pc, resumedAt>>
    /\ UNCHANGED <<clockVars, rb, inflight, outVars, mainVars>>
    /\ UNCHANGED fmtVars
RecvTermReaderLoops ==
    /\ pc = "select"
    /\ rpc \in {"send_err", "send_eot"}
    /\ ret' = <<EventStatus(rpc)>>
    /\ cause' = (IF rpc = "send_err" THEN "error" ELSE "eot")
    /\ pc' = "returned"
    /\ rpc' = "read"
    /\ UNCHANGED <<mode, duration, start, pause, d, char, resumedAt>>
    /\ UNCHANGED <<clockVars, rb, inflight, outVars, mainVars>>
    /\ UNCHANGED fmtVars
RecvTermRunningOnly ==
    /\ pc = "select"
    /\ ~pause
    /\ rpc \in {"send_err", "send_eot"}
    /\ ret' = <<EventStatus(rpc)>>
    /\ cause' = (IF rpc = "send_err" THEN "error" ELSE "eot")
    /\ pc' = "returned"
    /\ rpc' = (IF rpc = "send_err" /\ rb = EOT THEN "send_eot" ELSE "send_c")
    /\ UNCHANGED <<mode, duration, start, pause, d, char, resumedAt>>
    /\ UNCHANGED <<clockVars, rb, inflight, outVars, mainVars>>
    /\ UNCHANGED fmtVars
RecvTerm ==
    /\ pc = "select"
    /\ rpc \in {"send_err", "send_eot"}
    /\ ret' = <<EventStatus(rpc)>>
    /\ cause' = (IF rpc = "send_err" THEN "error" ELSE "eot")
    /\ pc' = "returned"
    /\ rpc' = (IF rpc = "send_err" /\ rb = EOT THEN "send_eot" ELSE "send_c")
    /\ UNCHANGED <<mode, duration, start, pause, d, char, resumedAt>>
    /\ UNCHANGED <<clockVars, rb, inflight, outVars, mainVars>>
    /\ UNCHANGED fmtVars

\* ----------------------------------------------------------- readStdin
\* os.Stdin.Read(b) succeeds with byte x
ReadByteNoWait ==
    /\ pc # "exited"
    /\ rpc \in {"read", "send_c"}
    /\ \E x \in Bytes :
          /\ rb' = x
          /\ inflight' = Append(inflight, x)
          /\ rpc' = AfterRead(x)
    /\ UNCHANGED <<loopVars, clockVars, outVars, mainVars>>
    /\ UNCHANGED fmtVars
ReadByte ==
    /\ pc # "exited"
    /\ rpc = "read"
    /\ \E x \in Bytes :
          /\ rb' = x
          /\ inflight' = Append(inflight, x)
          /\ rpc' = AfterRead(x)
    /\ UNCHANGED <<loopVars, clockVars, outVars, mainVars>>
    /\ UNCHANGED fmtVars

\* os.Stdin.Read(b) fails: b is left as it was
ReadError ==
    /\ pc # "exited"
    /\ rpc = "read"
    /\ rpc' = "send_err"
    /\ UNCHANGED <<rb, inflight, loopVars, clockVars, outVars, mainVars>>
    /\ UNCHANGED fmtVars

\* ---------------------------------------------------------------- main
\* t.Restore() after runTimer returned
Restore ==
    /\ pc = "returned"
    /\ term' = AfterRestore
    /\ pc' = "restored"
    /\ UNCHANGED <<mode, duration, start, pause, d, char, ret, cause, resumedAt>>
    /\ UNCHANGED <<clockVars, readerVars, outVars, exitStatus>>
    /\ UNCHANGED fmtVars

\* os.Exit(ret)
Exit ==
    /\ pc = "restored"
    /\ exitStatus' = ret
    /\ pc' = "exited"
    /\ UNCHANGED <<mode, duration, start, pause, d, char, ret, cause, resumedAt>>
    /\ UNCHANGED <<clockVars, readerVars, outVars, term>>
    /\ UNCHANGED fmtVars

\* ------------------------------------------------- printDuration alone
\* durations to format: whole hours, minutes, seconds and centiseconds, with
\* and without a remainder below one centisecond
FmtInputs ==
    { h * Hour + m * Minute + s * Second + c * (Millisecond * 10) + r :
        h \in 0..MaxHours, m \in {0, 2, 59}, s \in {0, 3, 59},
        c \in {0, 45, 99}, r \in {0, 99} }

FmtInit ==
    /\ Fresh
    /\ mode = TIMER
    /\ duration = 0
    /\ start = 0
    /\ d = 0
    /\ frame = <<>>
    /\ fin \in FmtInputs
    /\ fout = ""

\* printDuration(fin)
Format ==
    /\ fout = ""
    /\ fout' = printDuration(fin)
    /\ UNCHANGED <<fin, loopVars, clockVars, readerVars, outVars, mainVars>>

FmtSpec == FmtInit /\ [][Format]_vars

\* ------------------------------------------ a stopwatch late in its run
\* what the stopwatch already shows when the model picks it up
LateElapsed == MaxDuration - 2

\* Stopwatch mode: the loop has run unpaused for LateElapsed and has just
\* rendered that; clock readings are relative to this moment.  Timer and
\* Countdown mode: as at the entry of the loop.
LateInit ==
    /\ Fresh
    /\ start = (IF mode = STOPWATCH THEN 0 - LateElapsed ELSE 0)
    /\ d = 0 - start
    /\ frame = (IF mode = STOPWATCH THEN Render(mode, duration, d) ELSE <<>>)
    /\ fin = 0
    /\ fout = ""

RecvTick == TickPaused \/ TickOverrun \/ TickRender

Next ==
    \/ Advance
    \/ TickFire
    \/ TickPaused
    \/ TickOverrun
    \/ TickRender
    \/ RecvChar
    \/ Resume
    \/ RecvTerm
    \/ ReadByte
    \/ ReadError
    \/ Restore
    \/ Exit

Spec == Init /\ [][Next]_vars

LateSpec == LateInit /\ [][Next]_vars

\* Time passes, the ticker fires when due, and the loop's select takes a
\* ready case; main runs on after runTimer returns.  Nothing is assumed of
\* the reader, which may block in Read forever.
FairSpec ==
    /\ Spec
    /\ WF_vars(Advance)
    /\ WF_vars(TickFire)
    /\ WF_vars(RecvTick)
    /\ WF_vars(RecvTerm)
    /\ WF_vars(Resume)
    /\ WF_vars(Restore)
    /\ WF_vars(Exit)

TypeOK ==
    /\ mode \in Modes
    /\ duration \in 0..MaxDuration
    /\ start \in MinDuration..(MaxTime - MinDuration)
    /\ pause \in BOOLEAN
    /\ d \in MinDuration..MaxDuration
    /\ pc \in {"select", "resume", "returned", "restored", "exited"}
    /\ cause \in {"none", "overrun", "quit", "eot", "error"}
    /\ now \in 0..MaxTime
    /\ rpc \in {"read", "send_err", "send_eot", "send_c"}
    /\ rb \in Bytes \cup {0}
    /\ bells \in 0..1
    /\ newlines \in 0..1
    /\ term \in {"cbreak", "orig"}

\* --------------------------------------------------------------- claims
Terminated == ~Running

TimerModes == {TIMER, COUNTDOWN}

\* the frame that shows exactly the target: the whole duration elapsed, or
\* nothing remaining
TargetFrame ==
    IF mode = COUNTDOWN THEN <<"Time Remaining: ", 0>>
    ELSE <<"Elapsed time: ", duration>>

\* C1: whichever trigger ended runTimer, when the process has exited the
\* terminal has been restored and the exit status is the loop's status.
C1_RestoredBeforeExit ==
    pc = "exited" =>
        /\ term = "orig"
        /\ cause \in {"quit", "overrun", "eot", "error"}
        /\ ret # <<>>
        /\ exitStatus = ret

\* C1 witness: the process has exited after a read error ended the loop.
C1_Witness == pc = "exited" /\ cause = "error" /\ term = "orig"

C3_ReadErrorTerminates ==
    /\ []((rpc = "send_err" /\ pc = "select") => ENABLED RecvTerm)
    /\ [][(rpc = "send_err" /\ rpc' # "send_err") =>
             /\ pc = "select"
             /\ pc' = "returned"
             /\ ret' = <<1>>
             /\ tkC' = tkC
             /\ outVars' = outVars]_vars
    /\ ((rpc = "send_err") ~> Terminated)

\* C3 witness: the loop returned 1 for a read error while it was paused.
C3_Witness == cause = "error" /\ ret = <<1>> /\ pause /\ pc = "returned"

\* C4: the loop never receives 0x04 from c; once the reader has read 0x04 it
\* offers the termination event, and it offers the byte on c only after the
\* loop has taken that event and returned 0.
C4_EotNotForwarded ==
    /\ char # <<EOT>>
    /\ rb = EOT =>
          \/ rpc = "send_eot"
          \/ rpc = "send_c" /\ Terminated /\ cause = "eot" /\ ret = <<0>>

\* C4 witness: 0x04 was read, its event ended the loop, the process exited
\* and the byte is still waiting to be sent on c.
C4_Witness == rb = EOT /\ rpc = "send_c" /\ pc = "exited" /\ exitStatus = <<0>>

\* C5: the returned status is 0 or 1; it is 1 exactly when the loop took the
\* event of a read error; quit, overrun and 0x04 give 0; the process exits
\* with the returned status.
C5_ExitStatus ==
    /\ Terminated =>
          /\ ret \in {<<0>>, <<1>>}
          /\ ret = <<1>> <=> cause = "error"
          /\ cause \in {"quit", "overrun", "eot"} => ret = <<0>>
    /\ Running => ret = <<>>
    /\ pc = "exited" => exitStatus = ret
    /\ pc # "exited" => exitStatus = <<>>

\* C5 witness: the process has exited with status 1.
C5_Witness == exitStatus = <<1>> /\ cause = "error"

\* C6: the first frame rendered after a resume shows an elapsed value not
\* less than the last frame rendered before the pause, and exceeds it by at
\* most the time since the resume.
C6_PauseResumeNoDrift ==
    [][(TickRender /\ mode = STOPWATCH /\ resumedAt # <<>> /\ frame # <<>>) =>
          /\ frame'[2] >= frame[2]
          /\ frame'[2] - frame[2] <= now - resumedAt[1]]_vars

\* C7: in Timer and Countdown mode every frame shows an elapsed value within
\* 0..target; while no overrun has happened the frame shows d and d <= target
\* (d = target does not end the loop); the overrun happens with d > target
\* and leaves the frame showing exactly the target.
C7_NeverBeyondTarget ==
    mode \in TimerModes =>
        /\ frame # <<>> => frame[2] \in 0..duration
        /\ cause = "overrun" => d > duration /\ frame = TargetFrame
        /\ cause # "overrun" => d <= duration
        /\ (cause # "overrun" /\ frame # <<>>) =>
              frame = (IF mode = COUNTDOWN
                       THEN <<"Time Remaining: ", duration - d>>
                       ELSE <<"Elapsed time: ", d>>)
        /\ cause = "none" => Running

\* C7 witness: a Countdown ended by a tick that overshot the target by more
\* than one clock unit, showing zero remaining.
C7_Witness ==
    /\ mode = COUNTDOWN /\ duration > 0
    /\ cause = "overrun" /\ d > duration + 1
    /\ frame = <<"Time Remaining: ", 0>>

\* C8: the bell has been rung once if the loop ended by overrun, which
\* happens in Timer and Countdown mode only, and never otherwise.
C8_BellOnce ==
    /\ bells = (IF cause = "overrun" THEN 1 ELSE 0)
    /\ cause = "overrun" => mode \in TimerModes

\* C8 witness: a run that ended by overrun has exited, the bell rung once.
C8_Witness == pc = "exited" /\ cause = "overrun" /\ bells = 1

\* C9: once the loop has taken a termination event it is Terminated with
\* that event's status, and from then on neither its session state nor the
\* output nor the ticker's channel changes.
C9_TerminationWins ==
    /\ [](cause \in {"eot", "error"} =>
             /\ Terminated
             /\ ret = (IF cause = "error" THEN <<1>> ELSE <<0>>))
    /\ [][(cause \in {"eot", "error"}) =>
             /\ Terminated'
             /\ UNCHANGED <<mode, duration, start, pause, d, char, ret, cause>>
             /\ <<outVars, tkC>>' = <<outVars, tkC>>]_vars

\* C9 witness: a termination event ended the loop while a tick was pending;
\* the process has exited with the tick unconsumed and the reader offering
\* a byte.
C9_Witness ==
    /\ cause \in {"eot", "error"}
    /\ tkC # <<>>
    /\ rpc = "send_c"
    /\ pc = "exited"

\* C10: in Timer and Countdown mode the loop eventually terminates, and if
\* neither a quit byte nor a termination event ended it, it ended by overrun
\* with status 0, the final frame written and the bell rung.
C10_TimerTerminates ==
    (mode \in TimerModes) =>
        <>(/\ Terminated
           /\ cause \notin {"quit", "eot", "error"} =>
                 /\ cause = "overrun"
                 /\ ret = <<0>>
                 /\ frame = TargetFrame
                 /\ newlines = 1)

\* C10 witness: a Timer ended by overrun although the reader never got a
\* byte or an error from its read.
C10_Witness ==
    /\ mode = TIMER
    /\ cause = "overrun" /\ ret = <<0>>
    /\ rpc = "read" /\ rb = 0
    /\ pc = "exited"

\* C11: in Stopwatch mode, up to the largest elapsed value a duration can
\* hold and across pauses and resumes, no tick ends the loop: d never
\* exceeds the target, the bell never rings, and a terminated loop was ended
\* by the quit key or a termination event.
C11_StopwatchNeverOverruns ==
    mode = STOPWATCH =>
        /\ cause # "overrun"
        /\ d <= duration
        /\ bells = 0
        /\ Terminated => cause \in {"quit", "eot", "error"}

\* C11 witness: after a pause and a resume the stopwatch is running and
\* shows the largest duration, the time since start being beyond it.
C11_Witness ==
    /\ mode = STOPWATCH /\ Running /\ ~pause
    /\ char = <<SPACE>> /\ start # 0 - LateElapsed
    /\ d = MaxDuration /\ frame = <<"Elapsed time: ", MaxDuration>>
    /\ now - start > MaxDuration

\* the elapsed time a Timer or Countdown frame shows
ShownElapsed(f) == IF mode = COUNTDOWN THEN duration - f[2] ELSE f[2]

\* C12: in Timer and Countdown mode each frame shows an elapsed value not
\* less than the frame before it.
C12_TimerMonotonic ==
    (mode \in TimerModes /\ prevFrame # <<>>) =>
        ShownElapsed(frame) >= ShownElapsed(prevFrame)

\* C12 witness: a Countdown still running after two frames, the second
\* showing more elapsed time than the first.
C12_Witness ==
    /\ mode = COUNTDOWN /\ Running /\ prevFrame # <<>>
    /\ ShownElapsed(frame) > ShownElapsed(prevFrame)

\* C13: printDuration shows hours = d div 1h, minutes = (d mod 1h) div 1min,
\* seconds = (d mod 1min) div 1s and centiseconds = (d mod 1s) div 10ms,
\* with minutes and seconds in 0..59 and centiseconds in 0..99; 3723.45 s
\* gives [01:02:03.45] and 0 gives [00:00:00.00].
C13_PrintDuration ==
    fout # "" =>
        LET h == fin \div Hour
            m == (fin % Hour) \div Minute
            sec == (fin % Minute) \div Second
            cs == (fin % Second) \div (10 * Millisecond)
        IN  /\ m \in 0..59 /\ sec \in 0..59 /\ cs \in 0..99
            /\ fout = "[" \o Fmt22(h) \o ":" \o Fmt22(m) \o ":" \o Fmt22(sec)
                          \o "." \o Fmt22(cs) \o "]"
            /\ fin = 3723 * Second + 45 * (10 * Millisecond) => fout = "[01:02:03.45]"
            /\ fin = 0 => fout = "[00:00:00.00]"

\* C13 witness: 3723.45 s has been formatted.
C13_Witness == fin = 3723 * Second + 45 * (10 * Millisecond) /\ fout = "[01:02:03.45]"

\* C14: when a space is processed in Running, the elapsed value frozen for
\* the pause equals now - start at that instant.
C14_FrozenIsNowMinusStart ==
    [][(mode = STOPWATCH /\ ~pause /\ pause') => d' = Sub(now, start)]_vars

\* C15: from the moment the reader offers a termination event it reads no
\* more; once the loop has taken the event the reader stays where it is and
\* the loop receives no further byte and no further status.
C15_ReaderStops ==
    /\ [](cause \in {"eot", "error"} => rpc = "send_c")
    /\ [][(rpc \in {"send_err", "send_eot"} \/ cause \in {"eot", "error"}) =>
             /\ <<rb, inflight, char>>' = <<rb, inflight, char>>
             /\ cause \in {"eot", "error"} => <<rpc, ret>>' = <<rpc, ret>>]_vars

\* C15 witness: a read error came after a space had been delivered; the
\* loop took the event, the process exited, and the reader sits in its send
\* of the old byte.
C15_Witness ==
    /\ cause = "error" /\ pc = "exited"
    /\ rpc = "send_c" /\ rb = SPACE /\ char = <<SPACE>>

\* C16: a tick taken while paused changes nothing but the ticker's channel:
\* no frame, no bell, no newline, start, d and pause as they were, and the
\* loop still at its wait point.
C16_PausedTickIgnored ==
    [][(pause /\ tkC # <<>> /\ tkC' = <<>>) =>
          /\ pc = "select" /\ pc' = "select"
          /\ <<start, d, pause, ret, cause>>' = <<start, d, pause, ret, cause>>
          /\ outVars' = outVars]_vars

\* C16 witness: paused since before the first tick, at the clock's horizon:
\* the ticker has fired, the tick has been taken, and nothing was rendered.
C16_Witness ==
    /\ mode = STOPWATCH /\ pause /\ pc = "select"
    /\ now = MaxTime /\ nextTick > TickPeriod /\ tkC = <<>>
    /\ frame = <<>> /\ d = 0 /\ start = 0

\* C17: in Timer and Countdown mode the loop is never paused and start never
\* moves; receiving a byte that is neither a quit byte nor, in Stopwatch
\* mode, a space changes neither the session state nor the output.
C17_OtherBytesIgnored ==
    /\ [](mode \in TimerModes => (~pause /\ pc # "resume" /\ start = 0))
    /\ [][(/\ rpc = "send_c" /\ rpc' = "read"
           /\ rb \notin {UpperQ, LowerQ}
           /\ ~(mode = STOPWATCH /\ rb = SPACE)) =>
             /\ <<start, pause, d, pc, ret, cause>>' = <<start, pause, d, pc, ret, cause>>
             /\ <<outVars, tkC>>' = <<outVars, tkC>>]_vars

\* C17 witness: a Timer that has rendered a frame received a space and runs on.
C17_Witness ==
    /\ mode = TIMER /\ char = <<SPACE>> /\ pc = "select"
    /\ frame # <<>> /\ ~pause

\* C18: whenever the loop has terminated, the trailing newline has been
\* written.
C18_TrailingNewline == Terminated => newlines = 1

\* C19: the bytes read are the bytes the loop has received followed by those
\* in flight; at most one byte is in flight, and every byte the loop
\* receives is the oldest one in flight, which then leaves it: the bytes
\* received are always a prefix of the bytes read.
C19_BytesInOrder ==
    /\ [](Len(inflight) <= 1)
    /\ [][(char' # char \/ (rpc = "send_c" /\ rpc' = "read")) =>
             /\ inflight # <<>>
             /\ char' = <<Head(inflight)>>
             /\ inflight' = Tail(inflight)]_vars

\* C19 witness: a space has been received and a 'q' read after it is in
\* flight.
C19_Witness ==
    /\ char = <<SPACE>> /\ inflight = <<LowerQ>>
    /\ rpc = "send_c" /\ rb = LowerQ /\ Running

\* C20: in Stopwatch mode every frame shows a non-negative elapsed value not
\* less than the frame before it.
C20_StopwatchMonotonic ==
    mode = STOPWATCH =>
        /\ frame # <<>> => frame[2] >= 0
        /\ prevFrame # <<>> => frame[2] >= prevFrame[2]

=============================================================================
